---- MODULE Spec2Model ----
(***************************************************************************)
(* Job lifecycle and ownership model of the file-processing backend:       *)
(* the metadata store (files, jobs), the blob store (disk), the Celery     *)
(* work items (tasks), the request handlers of the tools, jobs and files   *)
(* routers, the worker tasks and the periodic sweep.                       *)
(***************************************************************************)
EXTENDS Integers, Sequences, FiniteSets, TLC

VARIABLES
    now,      \* datetime.utcnow(), in hours
    files,    \* table "files": sequence of rows, row id = index
    jobs,     \* table "jobs": sequence of rows, row id = index
    disk,     \* blob store: the set of file paths that exist
    tasks,    \* work item of each job and the position of the task running it
    cancels,  \* cancel_job calls that passed the status check and have not committed
    downloads, \* downloads whose track_download has read the row and has not committed
    resp,     \* the response of the last request handler that answered
    users,    \* table "users": sequence of rows, row id = index
    issued    \* the JWTs signed so far, by payload

vars == <<now, files, jobs, disk, tasks, cancels, downloads, resp, users, issued>>

---------------------------------------------------------------------------
\* Bounds of the model.

MaxJobs == 1
MaxUploads == 1
MaxTicks == 2
MaxDownloads == 1
MaxInflight == 2
MaxCancels == 1
\* Job history: rows in the table, page numbers and page sizes asked for.
MaxHistoryJobs == 3
MaxPage == 2
MaxPageSize == 2
\* Every job writes at most one output File row.
MaxFiles == MaxUploads + MaxJobs

---------------------------------------------------------------------------
\* Program constants.

FILE_TTL_HOURS == 24
MIN_ITEMS == 2
MAX_ITEMS == 50

\* Optional[str] guest_token: None and "" are both falsy in `if guest_token:`.
NoToken == ""
\* Optional[int] user_id: None and 0 are both falsy in `elif user_id:`.
NoUser == 0
\* Optional[int] output_file_id of a row: NULL.
NoFile == 0
\* Optional[str]: None
NoText == ""
\* None for a nullable timestamp or duration
NoTime == -1

GuestTokens == {"g1", "g2"}
OptTokens == GuestTokens \cup {NoToken}
UserIds == {1}
OptUsers == UserIds \cup {NoUser}

\* The hours the clock advances by in one step of the model.
TickHours == FILE_TTL_HOURS

\* JobStatus
PENDING == "pending"
PROCESSING == "processing"
COMPLETED == "completed"
FAILED == "failed"
CANCELLED == "cancelled"
JobStatus == {PENDING, PROCESSING, COMPLETED, FAILED, CANCELLED}

\* str(uuid.uuid4()) of the k-th generated job / file; "j0" and "f0" are ids
\* that were never generated.
JobUuid(k) == "j" \o ToString(k)
FileUuid(k) == "f" \o ToString(k)
JobIdSpace == {JobUuid(k) : k \in 0..MaxJobs}
FileIdSpace == {FileUuid(k) : k \in 0..MaxFiles}

\* stored path of an uploaded file: UPLOAD_DIR / f"{file_id}{file_ext}"
UploadPath(file_id) == "up/" \o file_id
\* path of a task's output: UPLOAD_DIR / output_filename
OutputPath(output_filename) == "up/" \o output_filename
OutputNames == {"merged.pdf"}

---------------------------------------------------------------------------
\* Queries over the tables.

JobRows == 1..Len(jobs)
FileRows == 1..Len(files)

\* get_job without its owner filter.
GetJobAnyOwner(job_id, guest_token, user_id) ==
    LET hit == {i \in DOMAIN jobs : jobs[i].job_id = job_id}
    IN  IF hit = {} THEN 0 ELSE CHOOSE i \in hit : TRUE

\* select(Job).where(Job.job_id == job_id) [.where owner]; scalar_one_or_none.
\* The row id, 0 for None.
GetJob(job_id, guest_token, user_id) ==
    LET hit == {i \in JobRows :
                  /\ jobs[i].job_id = job_id
                  /\ IF guest_token # NoToken
                        THEN jobs[i].guest_token = guest_token
                        ELSE IF user_id # NoUser
                                THEN jobs[i].user_id = user_id
                                ELSE TRUE}
    IN  IF hit = {} THEN 0 ELSE CHOOSE i \in hit : TRUE

\* get_file without its owner filter.
GetFileAnyOwner(file_id, guest_token, user_id) ==
    LET hit == {i \in DOMAIN files :
                  files[i].file_id = file_id /\ files[i].is_deleted = FALSE}
    IN  IF hit = {} THEN 0 ELSE CHOOSE i \in hit : TRUE

\* select(File).where(file_id, is_deleted == False) [.where owner].
GetFile(file_id, guest_token, user_id) ==
    LET hit == {i \in FileRows :
                  /\ files[i].file_id = file_id
                  /\ files[i].is_deleted = FALSE
                  /\ IF guest_token # NoToken
                        THEN files[i].guest_token = guest_token
                        ELSE IF user_id # NoUser
                                THEN files[i].user_id = user_id
                                ELSE TRUE}
    IN  IF hit = {} THEN 0 ELSE CHOOSE i \in hit : TRUE

\* get_file_download_path without its expiry check.
GetFileDownloadPathNoExpiry(file_id, guest_token, user_id) ==
    LET f == GetFile(file_id, guest_token, user_id)
    IN  IF f = 0 THEN 0
        ELSE IF files[f].file_path \notin disk THEN 0
        ELSE f

\* The row id of the file whose path is handed to the download, 0 for None.
GetFileDownloadPath(file_id, guest_token, user_id) ==
    LET f == GetFile(file_id, guest_token, user_id)
    IN  IF f = 0 THEN 0
        ELSE IF files[f].expires_at < now THEN 0
        ELSE IF files[f].file_path \notin disk THEN 0
        ELSE f

\* JobStatusResponse of get_job_status, NoStatus for None.
NoStatus == [found |-> FALSE]

\* A status response that gives a result_url whenever output_file_id is set.
GetJobStatusAnyOutput(job_id, guest_token, user_id) ==
    LET j == GetJob(job_id, guest_token, user_id)
    IN  IF j = 0 THEN NoStatus
        ELSE [found |-> TRUE,
              job_id |-> jobs[j].job_id,
              status |-> jobs[j].status,
              progress |-> jobs[j].progress,
              result_url |-> IF jobs[j].output_file_id # NoFile
                                THEN "/api/v1/files/" \o ToString(jobs[j].output_file_id) \o "/download"
                                ELSE NoText,
              error_message |-> jobs[j].error_message]

GetJobStatus(job_id, guest_token, user_id) ==
    LET j == GetJob(job_id, guest_token, user_id)
    IN  IF j = 0 THEN NoStatus
        ELSE [found |-> TRUE,
              job_id |-> jobs[j].job_id,
              status |-> jobs[j].status,
              progress |-> jobs[j].progress,
              result_url |-> IF jobs[j].status = COMPLETED /\ jobs[j].output_file_id # NoFile
                                THEN "/api/v1/files/" \o ToString(jobs[j].output_file_id) \o "/download"
                                ELSE NoText,
              error_message |-> jobs[j].error_message]

\* db.query(File).filter(File.file_id.in_(file_ids)).all(): the paths of the
\* rows found, in row order.
RECURSIVE PathsFrom(_, _)
PathsFrom(i, ids) ==
    IF i > Len(files) THEN <<>>
    ELSE IF files[i].file_id \in ids
            THEN <<files[i].file_path>> \o PathsFrom(i + 1, ids)
            ELSE PathsFrom(i + 1, ids)

Range(s) == {s[i] : i \in DOMAIN s}

get_file_paths(file_ids) == PathsFrom(1, Range(file_ids))

---------------------------------------------------------------------------
Init ==
    /\ now = 0
    /\ files = <<>>
    /\ jobs = <<>>
    /\ disk = {}
    /\ tasks = <<>>
    /\ cancels = {}
    /\ downloads = {}
    /\ resp = [op |-> "none", id |-> "", token |-> NoToken, code |-> 0]
    /\ users = <<>>
    /\ issued = {}

Tick ==
    /\ now + TickHours <= MaxTicks * TickHours
    /\ now' = now + TickHours
    /\ UNCHANGED <<files, jobs, disk, tasks, cancels, downloads, resp, users, issued>>

Respond(op, id, token, code) ==
    resp' = [op |-> op, id |-> id, token |-> token, code |-> code]

---------------------------------------------------------------------------
\* An upload row tagged with a user id beside the guest token.
NewUploadRowBothOwners(file_id, guest_token, user_id) ==
    [file_id |-> file_id,
     file_path |-> UploadPath(file_id),
     guest_token |-> guest_token,
     user_id |-> 1,
     is_input |-> TRUE,
     is_deleted |-> FALSE,
     download_count |-> 0,
     last_downloaded_at |-> NoTime,
     expires_at |-> now + FILE_TTL_HOURS]

\* POST /tools/upload with one file: ToolService.upload_files.  A file over
\* MAX_UPLOAD_SIZE raises ValueError before anything is written (400).

NewUploadRow(file_id, guest_token, user_id) ==
    [file_id |-> file_id,
     file_path |-> UploadPath(file_id),
     guest_token |-> guest_token,
     user_id |-> user_id,
     is_input |-> TRUE,
     is_deleted |-> FALSE,
     download_count |-> 0,
     last_downloaded_at |-> NoTime,
     expires_at |-> now + FILE_TTL_HOURS]

upload_files(guest_token, too_large) ==
    IF too_large
       THEN /\ Respond("upload", NoText, NoToken, 400)
            /\ UNCHANGED <<files, disk, users, issued>>
       ELSE LET file_id == FileUuid(Len(files) + 1)
            IN  /\ Cardinality({f \in FileRows : files[f].is_input}) < MaxUploads
                /\ disk' = disk \cup {UploadPath(file_id)}
                /\ files' = Append(files, NewUploadRow(file_id, guest_token, NoUser))
                /\ Respond("upload", file_id, NoToken, 200)

UploadBy(tokens) ==
    \E guest_token \in tokens, too_large \in BOOLEAN :
        /\ upload_files(guest_token, too_large)
        /\ UNCHANGED <<now, jobs, tasks, cancels, downloads, users, issued>>

Upload == UploadBy(OptTokens)

---------------------------------------------------------------------------
\* The file ids a client can name: the ids of the rows, and one that is none.
\* POST /tools/upload with several files.  A request is the sequence of its
\* files, each one over MAX_UPLOAD_SIZE or not.  The loop of
\* ToolService.upload_files handles the files in order: an oversized file
\* raises ValueError, any other is written to UPLOAD_DIR under a fresh uuid
\* and its row is added to the session.  The one commit follows the loop; on
\* ValueError the route answers 400 and get_db rolls the session back, so no
\* row of the request is stored.
MaxBatch == 2
MaxBatchBlobs == 3
Batches == UNION {[1..n -> BOOLEAN] : n \in 1..MaxBatch}

\* The files the loop handles before it returns or raises.
Handled(batch) ==
    {i \in DOMAIN batch : \A k \in 1..i : ~batch[k]}

\* The uuid of the i-th file of a request: fresh among rows and blobs.
BatchUuid(i) == FileUuid(Len(files) + Cardinality(disk) + i)

upload_batch(batch, guest_token) ==
    LET written == Handled(batch)
        rows == [i \in 1..Len(batch) |-> NewUploadRow(BatchUuid(i), guest_token, NoUser)]
    IN  /\ Cardinality(disk) + Len(batch) <= MaxBatchBlobs
        /\ disk' = disk \cup {UploadPath(BatchUuid(i)) : i \in written}
        /\ IF written = DOMAIN batch
              THEN /\ files' = files \o rows
                   /\ Respond("upload", [i \in 1..Len(batch) |-> BatchUuid(i)], NoToken, 200)
              ELSE /\ files' = files
                   /\ Respond("upload", <<>>, NoToken, 400)

UploadBatch ==
    \E batch \in Batches, guest_token \in OptTokens :
        /\ upload_batch(batch, guest_token)
        /\ UNCHANGED <<now, jobs, tasks, cancels, downloads, users, issued>>

KnownFileIds == {FileUuid(0)} \cup {files[f].file_id : f \in FileRows}

\* A delete that answers success without setting is_deleted.
delete_fileNoTombstone(file_id, guest_token, user_id) ==
    LET f == GetFile(file_id, guest_token, user_id)
    IN  IF f = 0
           THEN /\ Respond("delete", file_id, guest_token, 404)
                /\ UNCHANGED files
           ELSE /\ UNCHANGED files
                /\ Respond("delete", file_id, guest_token, 200)

\* DELETE /files/{file_id}: FileService.delete_file.
delete_file(file_id, guest_token, user_id) ==
    LET f == GetFile(file_id, guest_token, user_id)
    IN  IF f = 0
           THEN /\ Respond("delete", file_id, guest_token, 404)
                /\ UNCHANGED files
           ELSE /\ files' = [files EXCEPT ![f].is_deleted = TRUE]
                /\ Respond("delete", file_id, guest_token, 200)

DeleteBy(tokens) ==
    \E file_id \in KnownFileIds, guest_token \in tokens :
        /\ delete_file(file_id, guest_token, NoUser)
        /\ UNCHANGED <<now, jobs, disk, tasks, cancels, downloads, users, issued>>

DeleteFile == DeleteBy(OptTokens)

\* GET /files/{file_id}/download.  The handler resolves the path
\* (get_file_download_path, 404 for None); track_download then reads the row
\* of that file_id (no owner filter, no is_deleted filter) and only later
\* commits download_count = the value it read + 1 and last_downloaded_at:
\* another request may write the row in between.
TrackRow(file_id) ==
    LET hit == {i \in FileRows : files[i].file_id = file_id}
    IN  IF hit = {} THEN 0 ELSE CHOOSE i \in hit : TRUE

download_file(file_id, guest_token) ==
    LET f == GetFileDownloadPath(file_id, guest_token, NoUser)
        row == TrackRow(file_id)
        n == CHOOSE i \in 1..MaxInflight : \A d \in downloads : d.n # i
    IN  IF f = 0
           THEN /\ Respond("download", file_id, guest_token, 404)
                /\ UNCHANGED <<files, downloads, users, issued>>
           ELSE /\ files[f].download_count < MaxDownloads
                /\ Cardinality(downloads) < MaxInflight
                /\ downloads' = downloads \cup
                      {[n |-> n, row |-> row, download_count |-> files[row].download_count]}
                /\ UNCHANGED <<files, resp, users, issued>>

DownloadFile ==
    \E file_id \in KnownFileIds, guest_token \in OptTokens :
        /\ download_file(file_id, guest_token)
        /\ UNCHANGED <<now, jobs, disk, tasks, cancels, users, issued>>

\* track_download's commit, then the FileResponse.
track_download(d) ==
    /\ files' = [files EXCEPT ![d.row].download_count = d.download_count + 1,
                              ![d.row].last_downloaded_at = now]
    /\ downloads' = downloads \ {d}
    /\ Respond("download", files[d.row].file_id, NoToken, 200)
    /\ UNCHANGED <<now, jobs, disk, tasks, cancels, users, issued>>

TrackDownload == \E d \in downloads : track_download(d)

\* track_download raises (its select or its commit fails): the route awaits
\* it with no try/except before building the FileResponse, so the exception
\* reaches general_exception_handler, which answers 500.
track_download_fails(d) ==
    /\ downloads' = downloads \ {d}
    /\ Respond("download", files[d.row].file_id, NoToken, 500)
    /\ UNCHANGED <<now, files, jobs, disk, tasks, cancels, users, issued>>

TrackDownloadFails == \E d \in downloads : track_download_fails(d)

\* A download requested while no other download is in flight.
DownloadAlone == downloads = {} /\ DownloadFile

\* The periodic task cleanup_expired_files.

\* A scan that also takes the files whose expiry time is now.
ExpiredOrDue(f) == files[f].expires_at <= now /\ files[f].is_deleted = FALSE

\* File.expires_at < datetime.utcnow(), File.is_deleted == False
Expired(f) == files[f].expires_at < now /\ files[f].is_deleted = FALSE

cleanup_expired_files ==
    LET expired_files == {f \in FileRows : Expired(f)}
    IN  /\ disk' = disk \ {files[f].file_path : f \in expired_files}
        /\ files' = [f \in FileRows |->
                        IF f \in expired_files
                           THEN [files[f] EXCEPT !.is_deleted = TRUE]
                           ELSE files[f]]

Cleanup ==
    /\ \E f \in FileRows : Expired(f)
    /\ cleanup_expired_files
    /\ UNCHANGED <<now, jobs, tasks, cancels, downloads, resp, users, issued>>

\* A run that ends before db.commit() (an unlink raises, or the worker is
\* killed at task_time_limit): the blobs unlinked so far are gone, no row is
\* tombstoned, the except branch only logs.
CleanupInterrupted ==
    \E unlinked \in SUBSET {f \in FileRows : Expired(f)} :
        /\ \E f \in unlinked : files[f].file_path \in disk
        /\ disk' = disk \ {files[f].file_path : f \in unlinked}
        /\ UNCHANGED <<now, files, jobs, tasks, cancels, downloads, resp, users, issued>>

---------------------------------------------------------------------------
\* POST /tools/pdf/merge and /tools/convert/image-to-pdf.  Both take a
\* PDFMergeRequest; its `files` field is validated before the handler runs
\* (422), then ToolService.merge_pdfs / convert_images_to_pdf create the job
\* and queue the task.

MERGE == "pdf_merge"
IMAGES == "images_to_pdf"
ListTools == {MERGE, IMAGES}

\* The request model with min_items one too low.
PDFMergeRequestMinOne(file_ids) ==
    Len(file_ids) >= MIN_ITEMS - 1 /\ Len(file_ids) <= MAX_ITEMS

\* Field(..., min_items=2, max_items=50)
PDFMergeRequest(file_ids) ==
    Len(file_ids) >= MIN_ITEMS /\ Len(file_ids) <= MAX_ITEMS

\* A job row whose expiry is the horizon itself, not creation time + horizon.
NewJobRowFixedExpiry(job_id, tool_name, input_files_count, guest_token, user_id) ==
    [job_id |-> job_id,
     tool_name |-> tool_name,
     status |-> PENDING,
     guest_token |-> guest_token,
     user_id |-> user_id,
     input_files_count |-> input_files_count,
     output_file_id |-> NoFile,
     progress |-> 0,
     error_message |-> NoText,
     processing_started_at |-> NoTime,
     processing_completed_at |-> NoTime,
     processing_time_seconds |-> NoTime,
     created_at |-> now,
     expires_at |-> FILE_TTL_HOURS]

\* ToolService._create_job: the new row.
NewJobRow(job_id, tool_name, input_files_count, guest_token, user_id) ==
    [job_id |-> job_id,
     tool_name |-> tool_name,
     status |-> PENDING,
     guest_token |-> guest_token,
     user_id |-> user_id,
     input_files_count |-> input_files_count,
     output_file_id |-> NoFile,
     progress |-> 0,
     error_message |-> NoText,
     processing_started_at |-> NoTime,
     processing_completed_at |-> NoTime,
     processing_time_seconds |-> NoTime,
     created_at |-> now,
     expires_at |-> now + FILE_TTL_HOURS]

\* task.delay(job.job_id, file_ids, output_filename): the queued work item.
NewTask(job_id, tool_name, file_ids, output_filename) ==
    [pc |-> "queued",
     job_id |-> job_id,
     tool |-> tool_name,
     file_ids |-> file_ids,
     output_filename |-> output_filename,
     paths |-> <<>>,
     k |-> 0,
     out |-> NoText]

\* The service method: no check of the file ids.
create_list_job(tool_name, file_ids, output_filename, guest_token, user_id) ==
    LET job_id == JobUuid(Len(jobs) + 1)
    IN  /\ jobs' = Append(jobs, NewJobRow(job_id, tool_name, Len(file_ids), guest_token, user_id))
        /\ tasks' = Append(tasks, NewTask(job_id, tool_name, file_ids, output_filename))
        /\ Respond(tool_name, job_id, NoToken, 200)

SubmitList(tool_name, file_ids, output_filename, guest_token) ==
    /\ IF PDFMergeRequest(file_ids)
          THEN /\ Len(jobs) < MaxJobs
               /\ create_list_job(tool_name, file_ids, output_filename, guest_token, NoUser)
          ELSE /\ Respond(tool_name, NoText, NoToken, 422)
               /\ UNCHANGED <<jobs, tasks, users, issued>>
    /\ UNCHANGED <<now, files, disk, cancels, downloads, users, issued>>

\* The same request when task.delay raises (the broker cannot be reached):
\* _create_job has committed the row, the exception is not a ValueError, so
\* the route lets it through (500).  No work item exists for the job.
SubmitListBrokerDown(tool_name, file_ids, output_filename, guest_token) ==
    LET job_id == JobUuid(Len(jobs) + 1)
    IN  /\ PDFMergeRequest(file_ids)
        /\ Len(jobs) < MaxJobs
        /\ jobs' = Append(jobs, NewJobRow(job_id, tool_name, Len(file_ids), guest_token, NoUser))
        /\ tasks' = Append(tasks, [NewTask(job_id, tool_name, file_ids, output_filename)
                                      EXCEPT !.pc = "none"])
        /\ Respond(tool_name, NoText, NoToken, 500)
        /\ UNCHANGED <<now, files, disk, cancels, downloads, users, issued>>

\* The lists a request carries.  Validation looks at the length alone, so
\* the lists it refuses (0, 1 and MAX_ITEMS + 1 ids) repeat the unknown id;
\* the lists it lets through are MIN_ITEMS and MAX_ITEMS times one id, and
\* MIN_ITEMS ids with the unknown id first.
RequestLists ==
    {[i \in 1..n |-> FileUuid(0)] : n \in {0, MIN_ITEMS - 1, MAX_ITEMS + 1}}
      \cup {[i \in 1..n |-> id] : n \in {MIN_ITEMS, MAX_ITEMS}, id \in KnownFileIds}
      \cup {[i \in 1..MIN_ITEMS |-> IF i = 1 THEN FileUuid(0) ELSE id] : id \in KnownFileIds}

SubmitBy(tokens, tools) ==
    \E tool_name \in tools, file_ids \in RequestLists,
       output_filename \in OutputNames, guest_token \in tokens :
        SubmitList(tool_name, file_ids, output_filename, guest_token)

Submit == SubmitBy(OptTokens, ListTools)

SubmitBrokerDownBy(tokens, tools) ==
    \E tool_name \in tools, file_ids \in RequestLists,
       output_filename \in OutputNames, guest_token \in tokens :
        SubmitListBrokerDown(tool_name, file_ids, output_filename, guest_token)

---------------------------------------------------------------------------
\* Worker side (app/workers/tasks.py).

\* int(output_file_id) for a string of digits.
ParseInt(str) == CHOOSE n \in 0..(MaxFiles + 1) : ToString(n) = str

\* update_job_status: one read-modify-write of the row with that job_id.
\* "completed" stamps processing_completed_at, and computes
\* processing_time_seconds only `if job.processing_started_at`, a column that
\* no statement of the program assigns.
update_job_status(js, job_id, status, progress, output_file_id, error_message) ==
    [j \in DOMAIN js |->
        IF js[j].job_id = job_id
           THEN [js[j] EXCEPT
                    !.status = status,
                    !.progress = progress,
                    !.output_file_id =
                        IF output_file_id # NoText THEN ParseInt(output_file_id) ELSE @,
                    !.error_message =
                        IF error_message # NoText THEN error_message ELSE @,
                    !.processing_completed_at =
                        IF status = COMPLETED THEN now ELSE @,
                    !.processing_time_seconds =
                        IF status = COMPLETED /\ js[j].processing_started_at # NoTime
                           THEN now - js[j].processing_started_at
                           ELSE @]
           ELSE js[j]]

\* Checkpoints that count what is left instead of what is done.
CheckpointsRemaining(tool, n) ==
    IF tool = MERGE
       THEN [i \in 1..n |-> 10 + (((n - i) * 70) \div n)]
       ELSE <<80, 60, 30>>

\* The progress values a running task reports before it writes its output.
\* merge: 10 + int((i + 1) / len(file_paths) * 70) for each path;
\* images to pdf: 30 after opening, 60 after converting, 80 after saving.
Checkpoints(tool, n) ==
    IF tool = MERGE
       THEN [i \in 1..n |-> 10 + ((i * 70) \div n)]
       ELSE <<30, 60, 80>>

\* First statement of a task: update_job_status(job_id, "processing", 10),
\* then get_file_paths(file_ids).
TaskStart(j) ==
    /\ tasks[j].pc = "queued"
    /\ jobs' = update_job_status(jobs, tasks[j].job_id, PROCESSING, 10, NoText, NoText)
    /\ tasks' = [tasks EXCEPT ![j].pc = "running",
                              ![j].paths = get_file_paths(tasks[j].file_ids)]
    /\ UNCHANGED <<now, files, disk, cancels, downloads, resp, users, issued>>

\* Whether the transform step before checkpoint k + 1 can succeed: the files
\* it reads exist (merger.append of path k + 1; Image.open of every path;
\* images_rgb[0].save needs an image).
CanReach(t) ==
    IF t.tool = MERGE
       THEN t.paths[t.k + 1] \in disk
       ELSE CASE t.k = 0 -> \A i \in DOMAIN t.paths : t.paths[i] \in disk
              [] t.k = 1 -> TRUE
              [] OTHER   -> Len(t.paths) > 0

\* One transform step and the progress update after it.
TaskStep(j) ==
    LET t == tasks[j]
        plan == Checkpoints(t.tool, Len(t.paths))
    IN  /\ t.pc = "running"
        /\ t.tool \in ListTools
        /\ t.k < Len(plan)
        /\ CanReach(t)
        /\ jobs' = update_job_status(jobs, tasks[j].job_id, PROCESSING, plan[t.k + 1], NoText, NoText)
        /\ tasks' = [tasks EXCEPT ![j].k = t.k + 1]
        /\ disk' = IF t.tool = IMAGES /\ t.k = 2
                      THEN disk \cup {OutputPath(t.output_filename)}
                      ELSE disk
        /\ UNCHANGED <<now, files, cancels, downloads, resp, users, issued>>

\* An output row that does not take the job's guest token.
NewOutputRowNoOwner(file_id, job, file_path) ==
    [file_id |-> file_id,
     file_path |-> file_path,
     guest_token |-> NoToken,
     user_id |-> job.user_id,
     is_input |-> FALSE,
     is_deleted |-> FALSE,
     download_count |-> 0,
     last_downloaded_at |-> NoTime,
     expires_at |-> now + FILE_TTL_HOURS]

\* create_output_file: the new File row, owner copied from the job.
NewOutputRow(file_id, job, file_path) ==
    [file_id |-> file_id,
     file_path |-> file_path,
     guest_token |-> job.guest_token,
     user_id |-> job.user_id,
     is_input |-> FALSE,
     is_deleted |-> FALSE,
     download_count |-> 0,
     last_downloaded_at |-> NoTime,
     expires_at |-> now + FILE_TTL_HOURS]

\* merge: merger.write(output_path), then create_output_file; images to pdf:
\* create_output_file of the saved path (file_path.stat() needs the blob).
\* Returns str(file.id).
TaskOutput(j) ==
    LET t == tasks[j]
        plan == Checkpoints(t.tool, Len(t.paths))
        path == OutputPath(t.output_filename)
        id == Len(files) + 1
    IN  /\ t.pc = "running"
        /\ t.tool \in ListTools
        /\ t.k = Len(plan)
        /\ t.tool = IMAGES => path \in disk
        /\ disk' = disk \cup {path}
        /\ files' = Append(files, NewOutputRow(FileUuid(id), jobs[j], path))
        /\ tasks' = [tasks EXCEPT ![j].pc = "created", ![j].out = ToString(id)]
        /\ UNCHANGED <<now, jobs, cancels, downloads, resp, users, issued>>

\* update_job_status(job_id, "completed", 100, output_file_id)
TaskFinalize(j) ==
    /\ tasks[j].pc = "created"
    /\ jobs' = update_job_status(jobs, tasks[j].job_id, COMPLETED, 100, tasks[j].out, NoText)
    /\ tasks' = [tasks EXCEPT ![j].pc = "done"]
    /\ UNCHANGED <<now, files, disk, cancels, downloads, resp, users, issued>>

\* str(e) of the exception a transform step raises: a library message, or
\* the empty string of an exception constructed without arguments.
ErrorTexts == {NoText, "error"}

\* except Exception as e: update_job_status(job_id, "failed", 0,
\* error_message=str(e)).  Any transform step may raise.
TaskFail(j) ==
    /\ tasks[j].pc = "running"
    /\ \E text \in ErrorTexts :
          jobs' = update_job_status(jobs, tasks[j].job_id, FAILED, 0, NoText, text)
    /\ tasks' = [tasks EXCEPT ![j].pc = "done"]
    /\ UNCHANGED <<now, files, disk, cancels, downloads, resp, users, issued>>

---------------------------------------------------------------------------
\* POST /tools/pdf/split: PDFSplitRequest(file_id, split_type, pages, ranges)
\* with no validation of split_type; ToolService.split_pdf creates the job
\* (input_files_count 1) and queues split_pdf_task.  The task never reads
\* `ranges`.  pages: None and [] are both falsy in `and pages`.
SPLIT == "pdf_split"
SplitTypes == {"pages", "ranges"}
PageLists == {<<>>, <<0>>}

\* output_path.name of the split task: f"split_{file_id}.pdf"
SplitName(file_id) == "split_" \o file_id \o ".pdf"

NewSplitTask(job_id, file_id, split_type, pages) ==
    [pc |-> "queued",
     job_id |-> job_id,
     tool |-> SPLIT,
     file_ids |-> <<file_id>>,
     output_filename |-> SplitName(file_id),
     paths |-> <<>>,
     k |-> 0,
     out |-> NoText,
     split_type |-> split_type,
     pages |-> pages]

split_pdf(file_id, split_type, pages, guest_token) ==
    LET job_id == JobUuid(Len(jobs) + 1)
    IN  /\ Len(jobs) < MaxJobs
        /\ jobs' = Append(jobs, NewJobRow(job_id, SPLIT, 1, guest_token, NoUser))
        /\ tasks' = Append(tasks, NewSplitTask(job_id, file_id, split_type, pages))
        /\ Respond(SPLIT, job_id, NoToken, 200)
        /\ UNCHANGED <<now, files, disk, cancels, downloads, users, issued>>

SubmitSplitBy(tokens) ==
    \E file_id \in KnownFileIds, split_type \in SplitTypes,
       pages \in PageLists, guest_token \in tokens :
        split_pdf(file_id, split_type, pages, guest_token)

\* The branch that writes: taken only `if split_type == "pages" and pages`.
SplitWritesOutput(t) == t.split_type = "pages" /\ t.pages # <<>>

\* split_pdf_task after its first statement, when get_file_paths([file_id])[0]
\* exists and PdfReader can open it.  In the writing branch: the selected
\* pages go to UPLOAD_DIR / split_{file_id}.pdf and create_output_file adds
\* the row.
SplitWrite(j) ==
    LET t == tasks[j]
        path == OutputPath(t.output_filename)
        id == Len(files) + 1
    IN  /\ t.pc = "running"
        /\ t.tool = SPLIT
        /\ Len(t.paths) > 0
        /\ t.paths[1] \in disk
        /\ SplitWritesOutput(t)
        /\ disk' = disk \cup {path}
        /\ files' = Append(files, NewOutputRow(FileUuid(id), jobs[j], path))
        /\ tasks' = [tasks EXCEPT ![j].pc = "created", ![j].out = ToString(id)]
        /\ UNCHANGED <<now, jobs, cancels, downloads, resp, users, issued>>

\* str(e) of the UnboundLocalError
UnboundText == "local variable 'output_file_id' referenced before assignment"

\* In any other case nothing is written and the next statement,
\* update_job_status(job_id, "completed", 100, output_file_id), reads a local
\* variable that was never assigned: UnboundLocalError, caught by the task's
\* except branch.
SplitNoOutput(j) ==
    LET t == tasks[j]
    IN  /\ t.pc = "running"
        /\ t.tool = SPLIT
        /\ Len(t.paths) > 0
        /\ t.paths[1] \in disk
        /\ ~SplitWritesOutput(t)
        /\ jobs' = update_job_status(jobs, t.job_id, FAILED, 0, NoText, UnboundText)
        /\ tasks' = [tasks EXCEPT ![j].pc = "done"]
        /\ UNCHANGED <<now, files, disk, cancels, downloads, resp, users, issued>>

SplitWorker == \E j \in JobRows : SplitWrite(j) \/ SplitNoOutput(j)

\* An update_job_status call whose commit raises: its own except branch logs
\* the error and returns, the row keeps what it had, and the caller goes on.
\* Here the calls that finalize: "completed" after create_output_file, and
\* "failed" in the task's except branch.
TaskFinalizeWriteFails(j) ==
    /\ tasks[j].pc = "created"
    /\ tasks' = [tasks EXCEPT ![j].pc = "done"]
    /\ UNCHANGED <<now, files, jobs, disk, cancels, downloads, resp, users, issued>>

TaskFailWriteFails(j) ==
    /\ tasks[j].pc = "running"
    /\ tasks' = [tasks EXCEPT ![j].pc = "done"]
    /\ UNCHANGED <<now, files, jobs, disk, cancels, downloads, resp, users, issued>>

WorkerWriteFails ==
    \E j \in JobRows : TaskFinalizeWriteFails(j) \/ TaskFailWriteFails(j)

Worker ==
    \E j \in JobRows :
        \/ TaskStart(j)
        \/ TaskStep(j)
        \/ TaskOutput(j)
        \/ TaskFinalize(j)
        \/ TaskFail(j)

\* The broker delivers the work item of a finished task again: the task
\* function is called with the same arguments and starts at its first
\* statement.
Redeliver ==
    \E j \in JobRows :
        /\ tasks[j].pc = "done"
        /\ Len(files) < MaxFiles
        /\ tasks' = [tasks EXCEPT ![j] = NewTask(tasks[j].job_id, tasks[j].tool,
                                                  tasks[j].file_ids, tasks[j].output_filename)]
        /\ UNCHANGED <<now, files, jobs, disk, cancels, downloads, resp, users, issued>>

---------------------------------------------------------------------------
\* POST /jobs/{job_id}/cancel: JobService.cancel_job.  The handler reads the
\* row (get_job), checks the status, and only later commits the new status:
\* a worker may write the row in between.

cancel_job(job_id, guest_token, user_id) ==
    LET j == GetJob(job_id, guest_token, user_id)
    IN  /\ IF j = 0 \/ jobs[j].status \notin {PENDING, PROCESSING}
              THEN /\ Respond("cancel", job_id, guest_token, 400)
                   /\ UNCHANGED cancels
              ELSE /\ Cardinality(cancels) < MaxCancels
                   /\ cancels' = cancels \cup {[row |-> j, token |-> guest_token]}
                   /\ UNCHANGED resp
        /\ UNCHANGED <<now, files, jobs, disk, tasks, downloads, users, issued>>

CancelJob ==
    \E job_id \in JobIdSpace, guest_token \in OptTokens :
        cancel_job(job_id, guest_token, NoUser)

CancelCommit ==
    \E c \in cancels :
        /\ jobs' = [jobs EXCEPT ![c.row].status = CANCELLED]
        /\ cancels' = cancels \ {c}
        /\ Respond("cancel", jobs[c.row].job_id, c.token, 200)
        /\ UNCHANGED <<now, files, disk, tasks, downloads, users, issued>>

---------------------------------------------------------------------------
\* JobService.update_job_progress(job_id, progress, status=None): the row of
\* that job_id (no owner filter) gets the progress and, `if status`, the
\* status it is called with.  No route calls it.
ProgressValues == {0, 50, 100}

update_job_progress(job_id, progress, status) ==
    /\ jobs' = [j \in JobRows |->
                    IF jobs[j].job_id = job_id
                       THEN [jobs[j] EXCEPT
                                !.progress = progress,
                                !.status = IF status # NoText THEN status ELSE @]
                       ELSE jobs[j]]
    /\ UNCHANGED <<now, files, disk, tasks, cancels, downloads, resp, users, issued>>

UpdateJobProgress ==
    \E job_id \in JobIdSpace, progress \in ProgressValues, status \in JobStatus \cup {NoText} :
        /\ \E j \in JobRows : jobs[j].job_id = job_id
        /\ update_job_progress(job_id, progress, status)

---------------------------------------------------------------------------
\* JobService.get_job_history(guest_token, user_id, page, page_size).

\* The rows of the owner filter (none without credentials).
HistoryRows(guest_token, user_id) ==
    {j \in JobRows :
        IF guest_token # NoToken
           THEN jobs[j].guest_token = guest_token
           ELSE IF user_id # NoUser
                   THEN jobs[j].user_id = user_id
                   ELSE TRUE}

\* order_by(desc(Job.created_at)): the orders the database may return the
\* rows in; rows of equal created_at come in any order.
QueryOrders(rows) ==
    {o \in [1..Cardinality(rows) -> rows] :
        \A i, k \in 1..Cardinality(rows) :
            i < k => o[i] # o[k] /\ jobs[o[i]].created_at >= jobs[o[k]].created_at}

Min(a, b) == IF a < b THEN a ELSE b

\* A history whose offset is page * page_size.
JobHistoriesNextPage(guest_token, user_id, page, page_size) ==
    LET rows == HistoryRows(guest_token, user_id)
        total == Cardinality(rows)
        offset == page * page_size
    IN  {LET found == SubSeq(o, offset + 1, Min(offset + page_size, total))
         IN  [jobs |-> found,
              total |-> total,
              page |-> page,
              page_size |-> page_size,
              has_more |-> offset + Len(found) < total] : o \in QueryOrders(rows)}

\* The JobHistory values the call may return: total = len(all rows of the
\* query), offset = (page - 1) * page_size, the rows of
\* query.offset(offset).limit(page_size), has_more = offset + len(jobs) < total.
JobHistories(guest_token, user_id, page, page_size) ==
    LET rows == HistoryRows(guest_token, user_id)
        total == Cardinality(rows)
        offset == (page - 1) * page_size
    IN  {LET found == SubSeq(o, offset + 1, Min(offset + page_size, total))
         IN  [jobs |-> found,
              total |-> total,
              page |-> page,
              page_size |-> page_size,
              has_more |-> offset + Len(found) < total] : o \in QueryOrders(rows)}

\* GET /jobs/history (page, page_size, guest_token): the handler calls
\* job_service.get_job_history(guest_token, page, page_size) positionally, and
\* the method's parameters are (guest_token, user_id, page, page_size = 20):
\* the request's page arrives as user_id, its page_size as page.
DEFAULT_PAGE_SIZE == 20

get_job_history(page, page_size, guest_token) ==
    JobHistories(guest_token, page, page_size, DEFAULT_PAGE_SIZE)

\* ToolService.merge_pdfs called for a guest, up to MaxHistoryJobs rows.
HistoryJob ==
    \E guest_token \in GuestTokens :
        /\ Len(jobs) < MaxHistoryJobs
        /\ create_list_job(MERGE, <<FileUuid(0), FileUuid(0)>>, "merged.pdf", guest_token, NoUser)
        /\ UNCHANGED <<now, files, disk, cancels, downloads, users, issued>>

---------------------------------------------------------------------------
\* The jobs router (api/v1/routes/jobs.py): its routes in declaration order.
\* A path is the sequence of its segments; a segment "{...}" of a pattern
\* matches any segment.  Starlette's router runs the first route that
\* matches the method and the path.
JobRoutes ==
    << [method |-> "GET",  pattern |-> <<"{job_id}">>,           handler |-> "get_job_status"],
       [method |-> "GET",  pattern |-> <<"{job_id}", "status">>, handler |-> "get_job_status_simple"],
       [method |-> "POST", pattern |-> <<"{job_id}", "cancel">>, handler |-> "cancel_job"],
       [method |-> "GET",  pattern |-> <<"history">>,            handler |-> "get_job_history"] >>

IsParam(segment) == segment = "{job_id}"

Matches(route, method, path) ==
    /\ route.method = method
    /\ Len(route.pattern) = Len(path)
    /\ \A i \in DOMAIN path : IsParam(route.pattern[i]) \/ route.pattern[i] = path[i]

\* The handler the request is dispatched to, "none" when no route matches.
Dispatch(method, path) ==
    LET hits == {i \in DOMAIN JobRoutes : Matches(JobRoutes[i], method, path)}
    IN  IF hits = {} THEN "none"
        ELSE JobRoutes[CHOOSE i \in hits : \A k \in hits : i <= k].handler

\* The GET paths a client may ask for.
GetPaths ==
    {<<"history">>} \cup {<<job_id>> : job_id \in JobIdSpace}
        \cup {<<job_id, "status">> : job_id \in JobIdSpace \cup {"history"}}

\* A GET request to the jobs router and the answer of the handler it reaches:
\* the single-job handlers answer 404 when get_job finds nothing.
GetJobsRequest(path, guest_token) ==
    LET handler == Dispatch("GET", path)
    IN  /\ CASE handler = "get_job_history" ->
                  Respond(handler, NoText, guest_token, 200)
              [] handler \in {"get_job_status", "get_job_status_simple"} ->
                  Respond(handler, path[1], guest_token,
                          IF GetJob(path[1], guest_token, NoUser) # 0 THEN 200 ELSE 404)
              [] OTHER ->
                  Respond(handler, NoText, guest_token, 404)
        /\ UNCHANGED <<now, files, jobs, disk, tasks, cancels, downloads, users, issued>>

GetJobs == \E path \in GetPaths, guest_token \in OptTokens : GetJobsRequest(path, guest_token)

---------------------------------------------------------------------------
\* Accounts (services/auth_service.py, services/user_service.py,
\* api/v1/routes/auth.py, api/v1/routes/users.py).  A JWT is modelled by its
\* payload, [type, sub]; the tokens in "issued" are the ones signed with the
\* server's key, any other token fails decode_token.  Expiry is left out:
\* the tokens considered are within their lifetime.
MaxUsers == 2
Emails == {"a@example.com", "b@example.com"}
Passwords == {"pw1", "pw2"}
ACCESS == "access"
REFRESH == "refresh"
TokenTypes == {ACCESS, REFRESH}
\* every token a client may present, signed by the server or not
Tokens == [type : TokenTypes, sub : 1..MaxUsers]

get_password_hash(password) == "hash:" \o password
verify_password(plain_password, hashed_password) ==
    get_password_hash(plain_password) = hashed_password

UserRows == DOMAIN users
NoPayload == [type |-> "none", sub |-> NoUser]
decode_token(token) == IF token \in issued THEN token ELSE NoPayload
create_token_pair(user_id) ==
    {[type |-> ACCESS, sub |-> user_id], [type |-> REFRESH, sub |-> user_id]}

\* select(User).where(User.email == email): the row id, NoUser when none
UserByEmail(email) ==
    IF \E u \in UserRows : users[u].email = email
       THEN CHOOSE u \in UserRows : users[u].email = email
       ELSE NoUser

\* AuthService.get_current_user: the row id of the token's user, NoUser when
\* the token does not decode, is not an access token or names no row.
get_current_user(token) ==
    LET payload == decode_token(token)
    IN  IF payload.type # ACCESS THEN NoUser
        ELSE IF payload.sub \in UserRows THEN payload.sub ELSE NoUser

\* get_current_active_user: the dependency of the /users routes
get_current_active_user(token) ==
    LET user == get_current_user(token)
    IN  IF user = NoUser \/ ~users[user].is_active THEN NoUser ELSE user

\* POST /auth/register
register(email, password) ==
    /\ IF UserByEmail(email) # NoUser
          THEN /\ users' = users
               /\ Respond("register", NoText, NoToken, 400)
          ELSE /\ Len(users) < MaxUsers
               /\ users' = Append(users, [email |-> email,
                                          hashed_password |-> get_password_hash(password),
                                          is_active |-> TRUE,
                                          last_login |-> NoTime])
               /\ Respond("register", NoText, NoToken, 201)
    /\ UNCHANGED <<now, files, jobs, disk, tasks, cancels, downloads, issued>>

Register == \E email \in Emails, password \in Passwords : register(email, password)

\* POST /auth/login
login(email, password) ==
    LET user == UserByEmail(email)
    IN  /\ IF user = NoUser \/ ~verify_password(password, users[user].hashed_password)
              THEN /\ Respond("login", NoText, NoToken, 401)
                   /\ UNCHANGED <<users, issued>>
              ELSE IF ~users[user].is_active
              THEN /\ Respond("login", NoText, NoToken, 403)
                   /\ UNCHANGED <<users, issued>>
              ELSE /\ issued' = issued \cup create_token_pair(user)
                   /\ users' = [users EXCEPT ![user].last_login = now]
                   /\ Respond("login", NoText, NoToken, 200)
        /\ UNCHANGED <<now, files, jobs, disk, tasks, cancels, downloads>>

Login == \E email \in Emails, password \in Passwords : login(email, password)

\* POST /auth/refresh: AuthService.refresh_tokens
refresh_token(token) ==
    LET payload == decode_token(token)
    IN  /\ IF payload.type # REFRESH
              THEN /\ issued' = issued
                   /\ Respond("refresh", NoText, NoToken, 401)
              ELSE /\ issued' = issued \cup create_token_pair(payload.sub)
                   /\ Respond("refresh", NoText, NoToken, 200)
        /\ UNCHANGED <<now, files, jobs, disk, tasks, cancels, downloads, users>>

RefreshToken == \E token \in Tokens : refresh_token(token)

\* GET /auth/me
me(token) ==
    /\ Respond("me", NoText, NoToken, IF get_current_user(token) = NoUser THEN 401 ELSE 200)
    /\ UNCHANGED <<now, files, jobs, disk, tasks, cancels, downloads, users, issued>>

Me == \E token \in Tokens : me(token)

\* GET /users/profile (GET /users/dashboard has the same dependency)
get_profile(token) ==
    /\ Respond("profile", NoText, NoToken,
               IF get_current_active_user(token) = NoUser THEN 401 ELSE 200)
    /\ UNCHANGED <<now, files, jobs, disk, tasks, cancels, downloads, users, issued>>

GetProfile == \E token \in Tokens : get_profile(token)

\* DELETE /users/account: UserService.delete_user, a soft delete
delete_account(token) ==
    LET user == get_current_active_user(token)
    IN  /\ IF user = NoUser
              THEN /\ users' = users
                   /\ Respond("delete_account", NoText, NoToken, 401)
              ELSE /\ users' = [users EXCEPT ![user].is_active = FALSE]
                   /\ Respond("delete_account", NoText, NoToken, 200)
        /\ UNCHANGED <<now, files, jobs, disk, tasks, cancels, downloads, issued>>

DeleteAccount == \E token \in Tokens : delete_account(token)

---------------------------------------------------------------------------
FileNext == Tick \/ Upload \/ DeleteFile \/ DownloadFile \/ TrackDownload \/ Cleanup

JobNext == Upload \/ Submit \/ Worker \/ CancelJob \/ CancelCommit

Next == FileNext \/ JobNext

\* Every handler, task and the clock.
Spec == Init /\ [][Next]_vars

\* Guests are interchangeable, so one of them stands for the owner of what is
\* created; every caller (that guest, another guest, no token) acts on it.
OneOwner == {"g1"}

\* The file side alone: the owner's uploads, the clock, every caller's
\* downloads and deletes, the sweep.
OwnedFilesNext ==
    Tick \/ UploadBy(OneOwner) \/ DeleteFile \/ DownloadAlone \/ TrackDownload \/ Cleanup
SpecFiles == Init /\ [][OwnedFilesNext]_vars

\* Overlapping downloads of the owner's uploads.
OverlapNext == Tick \/ UploadBy(OneOwner) \/ DeleteFile \/ DownloadFile \/ TrackDownload
SpecOverlap == Init /\ [][OverlapNext]_vars

\* The same, where the database may fail while a download is recorded.
DownloadsNext ==
    Tick \/ UploadBy(OneOwner) \/ DeleteFile \/ DownloadFile \/ TrackDownload
        \/ TrackDownloadFails
SpecDownloads == Init /\ [][DownloadsNext]_vars

\* The owner's merge jobs over file ids that name no row, and every guest's
\* cancellations.
OwnersNext == SubmitBy(OneOwner, {MERGE}) \/ Worker \/ CancelJob \/ CancelCommit
SpecOwners == Init /\ [][OwnersNext]_vars

\* Submissions of every caller as time passes; nothing runs them.
SubmitNext == Tick \/ Submit
SpecSubmit == Init /\ [][SubmitNext]_vars

\* The owner's merge jobs with a broker that may be down at submission; the
\* worker runs every work item that is queued (a Celery worker keeps
\* consuming its queue); cancellation is up to the callers.
EnqueueNext ==
    \/ SubmitBy(OneOwner, {MERGE})
    \/ SubmitBrokerDownBy(OneOwner, {MERGE})
    \/ Worker
    \/ CancelJob
    \/ CancelCommit
SpecEnqueue == Init /\ [][EnqueueNext]_vars /\ WF_vars(Worker)

\* The guests' jobs created as time passes, for the history query.
HistoryNext == Tick \/ HistoryJob
SpecHistory == Init /\ [][HistoryNext]_vars

\* One owner's uploads and jobs, run by the worker.
RunNext == UploadBy(OneOwner) \/ SubmitBy(OneOwner, ListTools) \/ Worker
SpecRun == Init /\ [][RunNext]_vars

\* The hourly sweep (beat_schedule "cleanup-expired-files"), runs of it that
\* end early included, over the owner's uploads and submitted jobs.
SweepNext ==
    Tick \/ UploadBy(OneOwner) \/ DeleteBy(OneOwner) \/ SubmitBy(OneOwner, {MERGE})
        \/ Cleanup \/ CleanupInterrupted
SpecSweep == Init /\ [][SweepNext]_vars

\* Guests' merge jobs of the same output filename, run by the worker as time
\* passes, and the sweep.
SharedNext == Tick \/ HistoryJob \/ Worker \/ Cleanup
SpecShared == Init /\ [][SharedNext]_vars

\* The owner's uploads and jobs run by a worker that keeps consuming its
\* queue, where the database may fail under a finalizing status write.
WritesNext ==
    UploadBy(OneOwner) \/ SubmitBy(OneOwner, ListTools) \/ Worker \/ WorkerWriteFails
SpecWrites == Init /\ [][WritesNext]_vars /\ WF_vars(Worker)

\* The owner's jobs, with work items that may be delivered twice.
RedeliverNext == SubmitBy(OneOwner, ListTools) \/ Worker \/ Redeliver
SpecRedeliver == Init /\ [][RedeliverNext]_vars

\* The owner's merge jobs, the worker, cancellations and the job service's
\* progress update.
ServiceNext ==
    SubmitBy(OneOwner, {MERGE}) \/ Worker \/ CancelJob \/ CancelCommit \/ UpdateJobProgress
SpecService == Init /\ [][ServiceNext]_vars

\* Uploads and merge jobs of a guest and of callers without a token, run by
\* the worker.
TaggedNext ==
    UploadBy(OneOwner \cup {NoToken}) \/ SubmitBy(OneOwner \cup {NoToken}, {MERGE}) \/ Worker
SpecTagged == Init /\ [][TaggedNext]_vars

\* One guest's uploads, and merge jobs that any guest submits over them.
CrossNext == UploadBy(OneOwner) \/ SubmitBy(GuestTokens, {MERGE}) \/ Worker
SpecCross == Init /\ [][CrossNext]_vars

\* The owner's uploads and split jobs over them, run by the worker.
SplitNext == UploadBy(OneOwner) \/ SubmitSplitBy(OneOwner) \/ Worker \/ SplitWorker
SpecSplit == Init /\ [][SplitNext]_vars

\* Accounts: registration, login, bearer requests, refresh, deletion.
AccountsNext == Register \/ Login \/ RefreshToken \/ Me \/ GetProfile \/ DeleteAccount
SpecAccounts == Init /\ [][AccountsNext]_vars

\* Batch uploads as time passes.
BatchNext == Tick \/ UploadBatch
SpecBatch == Init /\ [][BatchNext]_vars

\* Guests' jobs and GET requests to the jobs router.
RouterNext == HistoryJob \/ GetJobs
SpecRouter == Init /\ [][RouterNext]_vars

---------------------------------------------------------------------------
\* Owners and the credentials that prove them: Guest(token) calls with
\* (guest_token, None), RegisteredUser(id) with (None, user_id).
Owners ==
    {[guest_token |-> g, user_id |-> NoUser] : g \in GuestTokens}
      \cup {[guest_token |-> NoToken, user_id |-> u] : u \in UserIds}

OwnerOf(row) == [guest_token |-> row.guest_token, user_id |-> row.user_id]

\* C1: a lookup of a job by an owner other than the job's owner returns what
\* the lookup of an id that names no job returns (get_job None,
\* get_job_status None) ...
C1_Lookups ==
    \A j \in JobRows, B \in Owners :
        B # OwnerOf(jobs[j]) =>
            /\ GetJob(jobs[j].job_id, B.guest_token, B.user_id) = 0
            /\ GetJob(JobUuid(0), B.guest_token, B.user_id) = 0
            /\ GetJobStatus(jobs[j].job_id, B.guest_token, B.user_id) = NoStatus
            /\ GetJobStatus(JobUuid(0), B.guest_token, B.user_id) = NoStatus

\* ... and a cancel_job by a guest who does not own a job of that id (the job
\* is another owner's, or there is none) answers False (400) and changes no
\* job and starts no cancellation.
C1_Cancel ==
    \A job_id \in JobIdSpace, g \in GuestTokens :
        (/\ cancel_job(job_id, g, NoUser)
         /\ \A j \in JobRows : jobs[j].job_id = job_id => jobs[j].guest_token # g)
        => /\ resp' = [op |-> "cancel", id |-> job_id, token |-> g, code |-> 400]
           /\ jobs' = jobs
           /\ cancels' = cancels

\* C1: ownership isolation for jobs (get_job, get_job_status, cancel_job).
C1_JobIsolation == []C1_Lookups /\ [][C1_Cancel]_vars

\* A guest's cancel of another guest's cancellable job was answered 400.
C1_Witness ==
    /\ resp.op = "cancel"
    /\ resp.code = 400
    /\ resp.token \in GuestTokens
    /\ \E j \in JobRows :
        /\ jobs[j].job_id = resp.id
        /\ jobs[j].guest_token \in GuestTokens \ {resp.token}
        /\ jobs[j].status \in {PENDING, PROCESSING}

---------------------------------------------------------------------------
\* C2: a lookup of a file by an owner other than the file's owner returns
\* what the lookup of an id that names no file returns (get_file None,
\* get_file_download_path None) ...
C2_Lookups ==
    \A f \in FileRows, B \in Owners :
        B # OwnerOf(files[f]) =>
            /\ GetFile(files[f].file_id, B.guest_token, B.user_id) = 0
            /\ GetFile(FileUuid(0), B.guest_token, B.user_id) = 0
            /\ GetFileDownloadPath(files[f].file_id, B.guest_token, B.user_id) = 0
            /\ GetFileDownloadPath(FileUuid(0), B.guest_token, B.user_id) = 0

\* ... and a delete or a download by a guest who does not own a file of that
\* id (the file is another owner's, or there is none) answers 404 and leaves
\* every row (deleted flag, download counter) and every blob as it was.
C2_Handlers ==
    \A file_id \in FileIdSpace, g \in GuestTokens :
        (\A f \in FileRows : files[f].file_id = file_id => files[f].guest_token # g)
        => /\ delete_file(file_id, g, NoUser) =>
                /\ resp' = [op |-> "delete", id |-> file_id, token |-> g, code |-> 404]
                /\ files' = files
           /\ download_file(file_id, g) =>
                /\ resp' = [op |-> "download", id |-> file_id, token |-> g, code |-> 404]
                /\ files' = files
                /\ downloads' = downloads

\* C2: ownership isolation for files (get_file, get_file_download_path,
\* delete_file, the download handler).
C2_FileIsolation == []C2_Lookups /\ [][C2_Handlers]_vars

\* A guest's download of another guest's live, unexpired file was answered 404.
C2_Witness ==
    /\ resp.op = "download"
    /\ resp.code = 404
    /\ resp.token \in GuestTokens
    /\ \E f \in FileRows :
        /\ files[f].file_id = resp.id
        /\ files[f].guest_token \in GuestTokens \ {resp.token}
        /\ files[f].is_deleted = FALSE
        /\ files[f].file_path \in disk
        /\ now < files[f].expires_at

---------------------------------------------------------------------------
\* C7: a file with expires_at < now has no download path for any caller ...
C7_Paths ==
    \A f \in FileRows :
        files[f].expires_at < now =>
            \A g \in OptTokens, u \in OptUsers :
                GetFileDownloadPath(files[f].file_id, g, u) = 0

\* ... a download of it answers 404 ...
C7_Download ==
    \A file_id \in FileIdSpace, g \in OptTokens :
        (/\ \E f \in FileRows : files[f].file_id = file_id /\ files[f].expires_at < now
         /\ download_file(file_id, g))
        => /\ resp' = [op |-> "download", id |-> file_id, token |-> g, code |-> 404]
           /\ files' = files
           /\ downloads' = downloads

\* ... and no request starts to count a download of it.
C7_Counter ==
    \A d \in downloads' \ downloads : ~(files[d.row].expires_at < now)

\* C7: expiry visibility on download, swept or not.
C7_ExpiredDownload == []C7_Paths /\ [][C7_Download /\ C7_Counter]_vars

\* The download of an expired file that the sweep has not tombstoned and whose
\* blob is on disk, by its owner (or with no token), was answered 404.
C7_Witness ==
    /\ resp.op = "download"
    /\ resp.code = 404
    /\ \E f \in FileRows :
        /\ files[f].file_id = resp.id
        /\ resp.token \in {files[f].guest_token, NoToken}
        /\ files[f].is_deleted = FALSE
        /\ files[f].file_path \in disk
        /\ files[f].download_count = 0
        /\ files[f].expires_at < now

---------------------------------------------------------------------------
\* C8: a file that is deleted, or whose expiry time has come (now >= expires_at),
\* is not found by any consumer: get_file (metadata and delete_file), the
\* download path, and the worker's get_file_paths.
C8_ObservableOnlyWhileLive ==
    \A f \in FileRows :
        ~(now < files[f].expires_at /\ files[f].is_deleted = FALSE) =>
            /\ \A g \in OptTokens :
                /\ GetFile(files[f].file_id, g, NoUser) = 0
                /\ GetFileDownloadPath(files[f].file_id, g, NoUser) = 0
            /\ get_file_paths(<<files[f].file_id>>) = <<>>

---------------------------------------------------------------------------
Terminal == {COMPLETED, FAILED, CANCELLED}

\* C3: once a job's status is Completed, Failed or Cancelled, no step changes it.
C3_TerminalImmutable ==
    [][\A j \in JobRows :
          jobs[j].status \in Terminal => jobs'[j].status = jobs[j].status]_vars

\* C4: a job's output_file_id is set if and only if its status is Completed.
C4_OutputIffCompleted ==
    \A j \in JobRows :
        (jobs[j].output_file_id # NoFile) <=> (jobs[j].status = COMPLETED)

C6_FullProgressIsCompleted ==
    \A j \in JobRows : jobs[j].progress = 100 => jobs[j].status = COMPLETED

---------------------------------------------------------------------------
\* A file id a submitter may use: it names a row of theirs that is neither
\* deleted nor expired.
ValidInput(file_id, guest_token) ==
    \E f \in FileRows :
        /\ files[f].file_id = file_id
        /\ files[f].guest_token = guest_token
        /\ files[f].is_deleted = FALSE
        /\ now < files[f].expires_at

\* C9: a submission naming a file id that is not a valid input of the
\* submitter is refused with an error; it creates no job row and queues no
\* work item.
C9_SubmissionValidatesInputs ==
    [][\A tool_name \in ListTools, file_ids \in RequestLists,
          output_filename \in OutputNames, g \in OptTokens :
          (/\ SubmitList(tool_name, file_ids, output_filename, g)
           /\ \E i \in DOMAIN file_ids : ~ValidInput(file_ids[i], g))
          => /\ jobs' = jobs
             /\ tasks' = tasks
             /\ resp'.code \in {400, 422}]_vars

\* C10: a merge or images-to-PDF submission of fewer than 2 or more than 50
\* file ids is refused (422) with no job row and no work item; one of 2 to
\* 50 ids creates the job row and queues its work item.
C10_Cardinality ==
    [][\A tool_name \in ListTools, file_ids \in RequestLists,
          output_filename \in OutputNames, g \in OneOwner :
          SubmitList(tool_name, file_ids, output_filename, g) =>
              IF Len(file_ids) < 2 \/ Len(file_ids) > 50
                 THEN /\ jobs' = jobs
                      /\ tasks' = tasks
                      /\ resp' = [op |-> tool_name, id |-> NoText, token |-> NoToken, code |-> 422]
                 ELSE /\ Len(jobs') = Len(jobs) + 1
                      /\ Len(tasks') = Len(tasks) + 1
                      /\ jobs'[Len(jobs')].input_files_count = Len(file_ids)
                      /\ tasks'[Len(tasks')].file_ids = file_ids
                      /\ resp'.code = 200]_vars

\* A list of 50 ids was accepted, and a later submission was refused.
C10_Witness ==
    /\ resp.op \in ListTools
    /\ resp.code = 422
    /\ \E j \in JobRows : jobs[j].input_files_count = 50

---------------------------------------------------------------------------
\* C11: a submission that succeeds adds exactly one job row (the rows before
\* it untouched) with a job_id no other row has, status Pending, progress 0,
\* input_files_count the number of ids submitted, the submitter's token as
\* owner, expires_at = now + FILE_TTL_HOURS; and adds exactly one work item,
\* which carries that job_id.
C11_SubmissionCreatesJob ==
    [][\A tool_name \in ListTools, file_ids \in RequestLists,
          output_filename \in OutputNames, g \in OptTokens :
          (SubmitList(tool_name, file_ids, output_filename, g) /\ resp'.code = 200) =>
              /\ Len(jobs') = Len(jobs) + 1
              /\ SubSeq(jobs', 1, Len(jobs)) = jobs
              /\ Len(tasks') = Len(tasks) + 1
              /\ SubSeq(tasks', 1, Len(tasks)) = tasks
              /\ LET job == jobs'[Len(jobs')]
                     item == tasks'[Len(tasks')]
                 IN  /\ job.job_id = resp'.id
                     /\ \A j \in JobRows : jobs[j].job_id # job.job_id
                     /\ job.tool_name = tool_name
                     /\ job.status = PENDING
                     /\ job.progress = 0
                     /\ job.input_files_count = Len(file_ids)
                     /\ job.guest_token = g
                     /\ job.user_id = NoUser
                     /\ job.output_file_id = NoFile
                     /\ job.expires_at = now + FILE_TTL_HOURS
                     /\ item.job_id = job.job_id
                     /\ item.pc = "queued"
                     /\ item.file_ids = file_ids]_vars

\* A guest's submission made after time has passed was answered with its job.
C11_Witness ==
    /\ resp.op \in ListTools
    /\ resp.code = 200
    /\ \E j \in JobRows :
        /\ jobs[j].job_id = resp.id
        /\ jobs[j].created_at > 0
        /\ jobs[j].guest_token \in GuestTokens
        /\ tasks[j].job_id = resp.id

---------------------------------------------------------------------------
\* C12: a job whose row was committed is not Pending forever, also when the
\* enqueue step failed: every Pending job eventually is not Pending.
C12_NoOrphanPending ==
    \A j \in 1..MaxJobs :
        (j \in JobRows /\ jobs[j].status = PENDING) ~>
            (j \in JobRows /\ jobs[j].status # PENDING)

---------------------------------------------------------------------------
\* C13: a task that succeeds writes exactly one output File row ...
\* There is one output row for each task that got past create_output_file.
C13_OneOutputRow ==
    Cardinality({f \in FileRows : files[f].is_input = FALSE})
        = Cardinality({j \in JobRows : tasks[j].pc = "created"
                                         \/ (tasks[j].pc = "done" /\ tasks[j].out # NoText)})

\* ... that row is appended with the job's owner fields, is_input false and
\* expires_at = now + FILE_TTL_HOURS, and its row id is what the task holds ...
C13_Output ==
    \A j \in JobRows :
        TaskOutput(j) =>
            /\ Len(files') = Len(files) + 1
            /\ SubSeq(files', 1, Len(files)) = files
            /\ files'[Len(files')].guest_token = jobs[j].guest_token
            /\ files'[Len(files')].user_id = jobs[j].user_id
            /\ files'[Len(files')].is_input = FALSE
            /\ files'[Len(files')].is_deleted = FALSE
            /\ files'[Len(files')].expires_at = now + FILE_TTL_HOURS
            /\ tasks'[j].out = ToString(Len(files'))
            /\ jobs' = jobs

\* ... and the completing update sets, in one write, output_file_id to that
\* row, progress to 100 and status to Completed, on that job alone.
C13_Finalize ==
    \A j \in JobRows :
        TaskFinalize(j) =>
            /\ ToString(jobs'[j].output_file_id) = tasks[j].out
            /\ jobs'[j].output_file_id \in FileRows
            /\ files[jobs'[j].output_file_id].is_input = FALSE
            /\ jobs'[j].progress = 100
            /\ jobs'[j].status = COMPLETED
            /\ \A i \in JobRows \ {j} : jobs'[i] = jobs[i]
            /\ files' = files

\* C13: what a successful task writes (output File row, completing update).
C13_SuccessWrites == []C13_OneOutputRow /\ [][C13_Output /\ C13_Finalize]_vars

\* A guest's job over an uploaded file completed with its own output row.
C13_Witness ==
    \E j \in JobRows :
        /\ jobs[j].status = COMPLETED
        /\ jobs[j].guest_token \in GuestTokens
        /\ jobs[j].output_file_id > 1
        /\ files[jobs[j].output_file_id].is_input = FALSE
        /\ files[jobs[j].output_file_id].guest_token = jobs[j].guest_token
        /\ Len(tasks[j].paths) > 0

---------------------------------------------------------------------------
\* C14: when a task's step raises, the job ends Failed with progress other
\* than 100 and a non-empty error_message, no File row is written, and no
\* other job's row changes.
C14_FailureWrites ==
    [][\A j \in JobRows :
          TaskFail(j) =>
              /\ jobs'[j].status = FAILED
              /\ jobs'[j].progress # 100
              /\ jobs'[j].error_message # NoText
              /\ jobs'[j].output_file_id = NoFile
              /\ files' = files
              /\ \A i \in JobRows \ {j} : jobs'[i] = jobs[i]]_vars

---------------------------------------------------------------------------
\* Whether the caller owns a job of that id whose status is Pending or
\* Processing.
Cancellable(job_id, guest_token) ==
    \E j \in JobRows :
        /\ jobs[j].job_id = job_id
        /\ jobs[j].guest_token = guest_token
        /\ jobs[j].status \in {PENDING, PROCESSING}

\* cancel_job answers False (400) and changes no row when the guest has no
\* cancellable job of that id, and goes on to its commit when the guest has.
C15_Check ==
    \A job_id \in JobIdSpace, g \in GuestTokens :
        cancel_job(job_id, g, NoUser) =>
            IF Cancellable(job_id, g)
               THEN /\ \E c \in cancels' \ cancels :
                          jobs[c.row].job_id = job_id /\ c.token = g
                    /\ jobs' = jobs
               ELSE /\ resp' = [op |-> "cancel", id |-> job_id, token |-> g, code |-> 400]
                    /\ jobs' = jobs
                    /\ cancels' = cancels

\* The commit of a guest's cancel_job call answers True (200) and sets
\* status Cancelled, on a job that is the guest's and is Pending or Processing.
C15_Commit ==
    \A c \in cancels :
        (/\ c.token \in GuestTokens
         /\ cancels' = cancels \ {c}
         /\ resp'.op = "cancel" /\ resp'.code = 200) =>
            /\ jobs[c.row].guest_token = c.token
            /\ jobs[c.row].status \in {PENDING, PROCESSING}
            /\ jobs' = [jobs EXCEPT ![c.row].status = CANCELLED]

\* C15: cancel_job returns True and sets Cancelled exactly when the job
\* exists, is the caller's and is Pending or Processing; otherwise it returns
\* False and leaves the row as it is.
C15_CancelExactlyWhenCancellable == [][C15_Check /\ C15_Commit]_vars

---------------------------------------------------------------------------
\* C16: the status response of a job its caller can see carries a result_url
\* if and only if the job's status is Completed.
C16_ResultUrlIffCompleted ==
    \A j \in JobRows, g \in OptTokens :
        LET r == GetJobStatus(jobs[j].job_id, g, NoUser)
        IN  r.found =>
                /\ r.job_id = jobs[j].job_id
                /\ (r.result_url # NoText) <=> (jobs[j].status = COMPLETED)

\* The owner sees a Completed job with its result_url.
C16_Witness ==
    \E j \in JobRows :
        /\ jobs[j].status = COMPLETED
        /\ jobs[j].guest_token \in GuestTokens
        /\ GetJobStatus(jobs[j].job_id, jobs[j].guest_token, NoUser).found
        /\ GetJobStatus(jobs[j].job_id, jobs[j].guest_token, NoUser).result_url # NoText

---------------------------------------------------------------------------
\* GET /api/v1/files/{file_id}/download: the URL of a file id, and the file
\* id the files router takes from a URL.
DownloadUrl(file_id) == "/api/v1/files/" \o file_id \o "/download"

UrlFileIds == FileIdSpace \cup {ToString(n) : n \in 0..MaxFiles}

UrlFileId(url) == CHOOSE file_id \in UrlFileIds : DownloadUrl(file_id) = url

\* C17: the result_url of a Completed job, requested with the owner's token
\* while the output file is live, resolves the File row that the job's
\* output_file_id references.
C17_ResultUrlResolves ==
    \A j \in JobRows :
        LET g == jobs[j].guest_token
            r == GetJobStatus(jobs[j].job_id, g, NoUser)
            f == jobs[j].output_file_id
        IN  (/\ g \in GuestTokens
             /\ r.found
             /\ r.result_url # NoText
             /\ files[f].is_deleted = FALSE
             /\ now < files[f].expires_at
             /\ files[f].file_path \in disk)
            => /\ \E file_id \in UrlFileIds : DownloadUrl(file_id) = r.result_url
               /\ GetFileDownloadPath(UrlFileId(r.result_url), g, NoUser) = f

---------------------------------------------------------------------------
\* The jobs of an owner.
JobsOf(B) == {j \in JobRows : OwnerOf(jobs[j]) = B}

\* C18: get_job_history(owner, page, page_size) returns only the owner's
\* jobs, in descending order of created_at, exactly those at positions
\* (page - 1) * page_size + 1 .. page * page_size of such an ordering of all
\* the owner's jobs, with total the number of the owner's jobs and has_more
\* true exactly when offset + number returned < total.
C18_History ==
    \A B \in Owners, page \in 1..MaxPage, page_size \in 1..MaxPageSize :
        \A h \in JobHistories(B.guest_token, B.user_id, page, page_size) :
            LET offset == (page - 1) * page_size
                n == Len(h.jobs)
            IN  /\ \A i \in 1..n : h.jobs[i] \in JobsOf(B)
                /\ \A i, k \in 1..n :
                      i < k => /\ h.jobs[i] # h.jobs[k]
                               /\ jobs[h.jobs[i]].created_at >= jobs[h.jobs[k]].created_at
                /\ h.total = Cardinality(JobsOf(B))
                /\ n = IF h.total > offset THEN Min(page_size, h.total - offset) ELSE 0
                \* the jobs before the page are at least as new, those after
                \* it at least as old, and there are offset jobs before it
                /\ \E before \in SUBSET (JobsOf(B) \ Range(h.jobs)) :
                      /\ Cardinality(before) = Min(offset, h.total)
                      /\ \A b \in before, i \in 1..n :
                            jobs[b].created_at >= jobs[h.jobs[i]].created_at
                      /\ \A a \in JobsOf(B) \ (before \cup Range(h.jobs)), i \in 1..n :
                            jobs[a].created_at <= jobs[h.jobs[i]].created_at
                      /\ \A b \in before, a \in JobsOf(B) \ (before \cup Range(h.jobs)) :
                            jobs[b].created_at >= jobs[a].created_at
                /\ h.page = page /\ h.page_size = page_size
                /\ h.has_more <=> (offset + n < h.total)

\* A guest with two jobs created at different times, beside another guest's
\* job, gets a first page of size one with more to come and a last second page.
C18_Witness ==
    \E B \in Owners :
        /\ Cardinality(JobsOf(B)) >= 2
        /\ Cardinality(JobRows \ JobsOf(B)) >= 1
        /\ \E i, k \in JobsOf(B) : jobs[i].created_at < jobs[k].created_at
        /\ \E h \in JobHistories(B.guest_token, B.user_id, 2, 1) :
              /\ Len(h.jobs) = 1
              /\ h.total = 2
              /\ h.has_more = FALSE
        /\ \E h \in JobHistories(B.guest_token, B.user_id, 1, 1) : h.has_more
----------------------------------------------------------------------------
\* C19: every successful download resolution increments the File's
\* download_count by exactly one and sets last_downloaded_at; a resolution
\* that fails (not found, wrong owner, deleted, expired, blob missing) leaves
\* download_count and last_downloaded_at unchanged.
C19_Recorded ==
    \A d \in downloads :
        track_download(d) =>
            /\ files'[d.row].download_count = files[d.row].download_count + 1
            /\ files'[d.row].last_downloaded_at = now

C19_Refused ==
    \A file_id \in FileIdSpace, g \in OptTokens :
        (GetFileDownloadPath(file_id, g, NoUser) = 0 /\ download_file(file_id, g))
        => files' = files /\ downloads' = downloads

C19_DownloadCounts == [][C19_Recorded /\ C19_Refused]_vars

\* C20: download tracking is best-effort: when recording the download fails
\* after the File was resolved, the request still returns the file.
C20_TrackingBestEffort ==
    [][\A d \in downloads :
          track_download_fails(d) =>
              resp' = [op |-> "download", id |-> files[d.row].file_id,
                       token |-> NoToken, code |-> 200]]_vars

---------------------------------------------------------------------------
\* C21: delete_file by the owner sets the File's tombstone flag, changes
\* nothing else of the row and leaves the blob in storage ...
C21_Delete ==
    \A file_id \in FileIdSpace, g \in GuestTokens :
        LET f == GetFile(file_id, g, NoUser)
        IN  (f # 0 /\ delete_file(file_id, g, NoUser))
            => /\ files' = [files EXCEPT ![f].is_deleted = TRUE]
               /\ disk' = disk
               /\ resp' = [op |-> "delete", id |-> file_id, token |-> g, code |-> 200]

\* ... afterwards get_file and get_file_download_path return None for every
\* caller ...
C21_NotFound ==
    \A f \in FileRows :
        files[f].is_deleted =>
            \A g \in OptTokens, u \in OptUsers :
                /\ GetFile(files[f].file_id, g, u) = 0
                /\ GetFileDownloadPath(files[f].file_id, g, u) = 0

\* ... and a second delete_file of the id returns False (404), writing nothing.
C21_Again ==
    \A f \in FileRows, g \in OptTokens :
        (files[f].is_deleted /\ delete_file(files[f].file_id, g, NoUser))
        => /\ resp' = [op |-> "delete", id |-> files[f].file_id, token |-> g, code |-> 404]
           /\ files' = files
           /\ disk' = disk

\* C21: delete is a tombstone, and a tombstoned file is not found.
C21_DeleteTombstones == []C21_NotFound /\ [][C21_Delete /\ C21_Again]_vars

\* The owner's second delete of an unexpired file (so the sweep has not
\* touched it) was answered 404, and its blob is still in storage.
C21_Witness ==
    /\ resp.op = "delete"
    /\ resp.code = 404
    /\ \E f \in FileRows :
        /\ files[f].file_id = resp.id
        /\ files[f].guest_token = resp.token
        /\ files[f].is_deleted
        /\ now <= files[f].expires_at
        /\ files[f].file_path \in disk

---------------------------------------------------------------------------
\* C22: a run of cleanup_expired_files tombstones exactly the Files that had
\* expires_at < now and deleted == false when it scanned and removes the
\* blob of each (a blob that is missing already does not stop it); every
\* other File row and every Job row is left as it was.
C22_Scanned == {f \in FileRows : files[f].expires_at < now /\ files[f].is_deleted = FALSE}

C22_Run ==
    (cleanup_expired_files /\ files' # files)
    => /\ Len(files') = Len(files)
       /\ \A f \in FileRows :
            files'[f] = IF f \in C22_Scanned
                           THEN [files[f] EXCEPT !.is_deleted = TRUE]
                           ELSE files[f]
       /\ disk' = disk \ {files[f].file_path : f \in C22_Scanned}
       /\ jobs' = jobs
       /\ tasks' = tasks

\* No step takes a blob out of storage but a sweep of a scanned file.
C22_Blobs ==
    \A path \in disk \ disk' :
        \E f \in C22_Scanned : files[f].file_path = path

C22_SweepExact == [][C22_Run /\ C22_Blobs]_vars

\* A sweep tombstoned an expired file whose blob is gone, beside a job row.
C22_Witness ==
    /\ jobs # <<>>
    /\ \E f \in FileRows :
        /\ files[f].is_deleted
        /\ files[f].expires_at < now
        /\ files[f].file_path \notin disk

---------------------------------------------------------------------------
\* C23: the sweep never changes visibility: for every File and every caller,
\* get_file_download_path gives the same result right after a run of
\* cleanup_expired_files as right before it (a live, unexpired File never
\* becomes not-found because of a sweep).
C23_SweepKeepsVisibility ==
    [][((\E f \in FileRows : Expired(f)) /\ cleanup_expired_files)
        => \A file_id \in FileIdSpace, g \in OptTokens, u \in OptUsers :
              GetFileDownloadPath(file_id, g, u)' = GetFileDownloadPath(file_id, g, u)]_vars

---------------------------------------------------------------------------
\* C24: every Job whose work item was picked up by a worker eventually
\* reaches a terminal status: it does not stay Processing forever, also when
\* the task body raises or a status write fails.
C24_PickedUpJobsFinish ==
    \A j \in 1..MaxJobs :
        (j \in JobRows /\ jobs[j].status = PROCESSING) ~>
            (j \in JobRows /\ jobs[j].status \in Terminal)

---------------------------------------------------------------------------
\* C25: duplicate delivery is a safe no-op: a task step for a Job that is
\* already Completed, Failed or Cancelled leaves the Job's status, progress,
\* output_file_id and error_message unchanged and creates no output File.
C25_DuplicateDeliveryNoOp ==
    [][\A j \in JobRows :
          (jobs[j].status \in Terminal /\ tasks'[j] # tasks[j])
          => /\ jobs'[j].status = jobs[j].status
             /\ jobs'[j].progress = jobs[j].progress
             /\ jobs'[j].output_file_id = jobs[j].output_file_id
             /\ jobs'[j].error_message = jobs[j].error_message
             /\ files' = files]_vars

---------------------------------------------------------------------------
\* C26: when a worker picks up the work item of a Pending Job (the first
\* statement of the task, before any transform step), the Job becomes
\* Processing, processing_started_at is stamped with the time of the pick-up
\* and progress is set to the initial checkpoint 10.
C26_PickUp ==
    [][\A j \in JobRows :
          (/\ jobs[j].status = PENDING
           /\ tasks[j].pc = "queued"
           /\ tasks'[j].pc = "running")
          => /\ jobs'[j].status = PROCESSING
             /\ jobs'[j].progress = 10
             /\ jobs'[j].processing_started_at = now
             /\ tasks'[j].k = 0]_vars

---------------------------------------------------------------------------
\* C27: every Job that is Completed has processing_completed_at stamped and
\* processing_time_seconds = processing_completed_at - processing_started_at,
\* a value that is set and not negative.
C27_ProcessingTime ==
    \A j \in JobRows :
        jobs[j].status = COMPLETED =>
            /\ jobs[j].processing_completed_at # NoTime
            /\ jobs[j].processing_started_at # NoTime
            /\ jobs[j].processing_time_seconds # NoTime
            /\ jobs[j].processing_time_seconds >= 0
            /\ jobs[j].processing_time_seconds
                  = jobs[j].processing_completed_at - jobs[j].processing_started_at

---------------------------------------------------------------------------
\* C28: in every reachable state a Job's error_message is set only if the
\* Job's status is Failed.
C28_ErrorOnlyIfFailed ==
    \A j \in JobRows : jobs[j].error_message # NoText => jobs[j].status = FAILED

---------------------------------------------------------------------------
\* C29: a step that writes a Job's output_file_id, or moves its status to
\* Completed or Failed, is a finalizing step of the task that runs the Job
\* (update_job_status called from the task); no operation of the job service
\* does so.
C29_FinalizationOnlyWriter ==
    [][\A j \in JobRows :
          (\/ jobs'[j].output_file_id # jobs[j].output_file_id
           \/ /\ jobs'[j].status \in {COMPLETED, FAILED}
              /\ jobs'[j].status # jobs[j].status)
          => /\ tasks[j].pc \in {"running", "created"}
             /\ tasks'[j].pc = "done"]_vars

---------------------------------------------------------------------------
\* C30: File content is immutable once written: the upload or the task that
\* creates a File row writes the bytes at its file_path, so no File row is
\* created for a path that an earlier File row has; in particular the
\* outputs of two jobs are never written to the same storage path.
C30_ContentImmutable ==
    \A f1, f2 \in FileRows :
        f1 # f2 => files[f1].file_path # files[f2].file_path

---------------------------------------------------------------------------
\* C31: in every reachable state no Job row and no File row has both user_id
\* and guest_token set, and every output File carries the user_id and the
\* guest_token of the Job whose task created it.
C31_NotBoth ==
    /\ \A j \in JobRows : ~(jobs[j].guest_token # NoToken /\ jobs[j].user_id # NoUser)
    /\ \A f \in FileRows : ~(files[f].guest_token # NoToken /\ files[f].user_id # NoUser)

C31_OutputOwner ==
    \A j \in JobRows :
        tasks[j].out # NoText =>
            LET f == ParseInt(tasks[j].out)
            IN  /\ f \in FileRows
                /\ files[f].is_input = FALSE
                /\ files[f].guest_token = jobs[j].guest_token
                /\ files[f].user_id = jobs[j].user_id

C31_OneOwnerTag == C31_NotBoth /\ C31_OutputOwner

\* A guest's job has written its output File beside an upload made without
\* a token.
C31_Witness ==
    /\ \E j \in JobRows :
        /\ jobs[j].guest_token \in GuestTokens
        /\ tasks[j].out # NoText
        /\ files[ParseInt(tasks[j].out)].guest_token = jobs[j].guest_token
    /\ \E f \in FileRows : files[f].is_input /\ files[f].guest_token = NoToken

---------------------------------------------------------------------------
\* C32: a caller that presents no credentials (no guest_token, no user_id)
\* finds no Job and no File that carries a guest_token or a user_id: get_job,
\* get_job_status, get_file and get_file_download_path return None, and
\* get_job_history selects no such Job.
C32_NoCredentialsNoAccess ==
    /\ \A j \in JobRows :
          (jobs[j].guest_token # NoToken \/ jobs[j].user_id # NoUser) =>
              /\ GetJob(jobs[j].job_id, NoToken, NoUser) = 0
              /\ GetJobStatus(jobs[j].job_id, NoToken, NoUser) = NoStatus
              /\ j \notin HistoryRows(NoToken, NoUser)
    /\ \A f \in FileRows :
          (files[f].guest_token # NoToken \/ files[f].user_id # NoUser) =>
              /\ GetFile(files[f].file_id, NoToken, NoUser) = 0
              /\ GetFileDownloadPath(files[f].file_id, NoToken, NoUser) = 0

---------------------------------------------------------------------------
\* C33: no cross-owner data flow through jobs: the blob a merge step reads
\* (merger.append of the next path of the work item) is the blob of Files
\* that the Job's owner owns and that are neither deleted nor expired.
C33_WorkerReadsOwnFiles ==
    [][\A j \in JobRows :
          (/\ tasks[j].pc = "running"
           /\ tasks[j].tool = MERGE
           /\ tasks'[j].k = tasks[j].k + 1)
          => \A f \in FileRows :
                files[f].file_path = tasks[j].paths[tasks[j].k + 1]
                => /\ files[f].guest_token = jobs[j].guest_token
                   /\ files[f].user_id = jobs[j].user_id
                   /\ files[f].is_deleted = FALSE
                   /\ ~(files[f].expires_at < now)]_vars

---------------------------------------------------------------------------
\* C34: a job completes only over all of its submitted inputs: a Completed
\* Job has processed as many input files as its input_files_count (when a
\* file id of the work item resolves to no File row, the Job ends Failed and
\* no output File is created).
C34_CompletesOverAllInputs ==
    \A j \in JobRows :
        jobs[j].status = COMPLETED =>
            Len(tasks[j].paths) = jobs[j].input_files_count

---------------------------------------------------------------------------
\* C35: a split task whose input file resolves and whose PDF library calls
\* do not fail writes exactly one output File whatever the split_type and
\* the page list are ('ranges', or 'pages' with an empty or absent list, like
\* 'pages' with a list), after which the Job is completed: the step that
\* leaves the transform goes on to the completing status write.
C35_LibraryFailed(j) ==
    /\ jobs'[j].status = FAILED
    /\ jobs'[j].error_message \in ErrorTexts

C35_SplitCompletes ==
    [][\A j \in JobRows :
          (/\ tasks[j].tool = SPLIT
           /\ tasks[j].pc = "running"
           /\ Len(tasks[j].paths) > 0
           /\ tasks[j].paths[1] \in disk
           /\ tasks'[j].pc # "running"
           /\ ~C35_LibraryFailed(j))
          => /\ tasks'[j].pc = "created"
             /\ Len(files') = Len(files) + 1
             /\ files'[Len(files')].is_input = FALSE
             /\ jobs'[j].status = PROCESSING]_vars

---------------------------------------------------------------------------
\* C36: whenever get_job_status returns a result_url for a Job, the output
\* File the Job refers to is live: its row exists, is not deleted and is not
\* expired.
C36_ResultIsLive ==
    \A j \in JobRows, g \in OptTokens :
        LET s == GetJobStatus(jobs[j].job_id, g, NoUser)
            f == jobs[j].output_file_id
        IN  (s.found /\ s.result_url # NoText)
            => /\ f \in FileRows
               /\ files[f].is_deleted = FALSE
               /\ ~(files[f].expires_at < now)

---------------------------------------------------------------------------
\* C37: the history endpoint forwards its parameters faithfully: for a
\* request with guest token g, page p and page_size s the JobHistory returned
\* has page = p and page_size = s and holds only Jobs owned by g.
C37_HistoryForwardsParameters ==
    \A g \in GuestTokens, p \in 1..MaxPage, s \in 1..MaxPageSize :
        \A h \in get_job_history(p, s, g) :
            /\ h.page = p
            /\ h.page_size = s
            /\ \A i \in DOMAIN h.jobs : jobs[h.jobs[i]].guest_token = g

---------------------------------------------------------------------------
\* C38: with the jobs router's routes matched in declaration order, a GET
\* request for the path /history is dispatched to the history handler, not
\* to the single-job handler with job_id = "history".
C38_HistoryRoute ==
    [][\A g \in OptTokens :
          GetJobsRequest(<<"history">>, g)
          => resp' = [op |-> "get_job_history", id |-> NoText, token |-> g, code |-> 200]]_vars

---------------------------------------------------------------------------
\* C39: a batch upload is all-or-nothing.  When a file of the request is over
\* MAX_UPLOAD_SIZE the request is answered with an error, stores no row and
\* leaves no blob in the upload directory; when every file passes, one input
\* row per file is stored and the answer lists the rows' ids in upload order.
C39_BatchAllOrNothing ==
    [][\A batch \in Batches, g \in OptTokens :
          (resp'.op = "upload" /\ upload_batch(batch, g)) =>
              IF \E i \in DOMAIN batch : batch[i]
                 THEN /\ resp'.code = 400
                      /\ files' = files
                      /\ disk' = disk
                 ELSE /\ resp'.code = 200
                      /\ Len(files') = Len(files) + Len(batch)
                      /\ \A i \in DOMAIN batch :
                            /\ files'[Len(files) + i].is_input
                            /\ resp'.id[i] = files'[Len(files) + i].file_id
                            /\ UploadPath(resp'.id[i]) \in disk']_vars

---------------------------------------------------------------------------
\* The users delete_user has deactivated.
Deactivated == {u \in UserRows : ~users[u].is_active}

\* C40: once delete_account has deactivated a user, no credential of that
\* user authenticates: login with the user's email is refused, /auth/me and
\* the /users routes reject the access tokens issued to the user, and
\* /auth/refresh mints nothing from the user's refresh tokens.
C40_DeletedAccountLockedOut ==
    [][\A u \in Deactivated :
          /\ \A password \in Passwords :
                login(users[u].email, password) => resp'.code \in {401, 403}
          /\ \A token \in {t \in issued : t.sub = u} :
                /\ me(token) => resp'.code = 401
                /\ get_profile(token) => resp'.code = 401
                /\ delete_account(token) => resp'.code = 401
                /\ refresh_token(token) => resp'.code = 401]_vars

====
